---- MODULE Spec2Model ----
(***************************************************************************)
(* Order book client (src/order_book_client.py): a local mirror of a       *)
(* remote order book, built from one snapshot and a stream of 26-byte      *)
(* delta frames, and submitted for validation once a target ordinal is     *)
(* reached.                                                                *)
(*                                                                         *)
(* A ledger (OrderedDict price -> quantity) is a sequence of               *)
(* <<price, quantity>> pairs in iteration order.  Prices and quantities    *)
(* are integers scaled by 10^7.  A decimal string of the snapshot or of    *)
(* the validation payload is modelled by the number of half units          *)
(* (5 * 10^-8) it denotes: 3 is "0.00000015", 4 is "0.0000002".            *)
(***************************************************************************)
EXTENDS Integers, Sequences, FiniteSets, TLC

\* ordinals of snapshots and frames range over 0..MaxSeq
MaxSeq == 3
\* quantities (scaled) range over 0..MaxQty
MaxQty == 2
\* a snapshot lists at most MaxSnapLevels levels, both sides together
MaxSnapLevels == 2
\* the configured depth ranges over 0..MaxDepth
MaxDepth == 1

\* len(message) != 26
FRAME_LEN == 26

\* the query of the /snapshot request: ?depth=100
SNAPSHOT_DEPTH == 100

VARIABLES
    pc,             \* position of the controller (main / start / _connect_websocket)
    session,        \* self.session: "none", "open", "closed"
    websocket,      \* self.websocket: "none", "open", "closed"
    running,        \* self.running
    target_ordinal, \* self.target_ordinal
    order_book,     \* self.order_book: [depth, bids, asks, last_update_id]
    msg,            \* the frame the stream loop holds, NoMsg between frames
    exit_code,      \* -1 while the process runs, else its exit status
    held,           \* the snapshot a replay of _process_snapshot loads, and the mirror it
                    \* started from (SpecSnapshot)
    loads,          \* the number of times _process_snapshot has completed
    dec,            \* the value a replay of format_decimal formats, the string it gives and
                    \* what the string parses back to (SpecDecimal)
    startup,        \* history: the last answer of /start or /snapshot, <<status, body>>
    loaded,         \* history: _process_snapshot has completed
    outcome,        \* history: what the stream loop did with the last frame, the answer of
                    \* /assertion once it has come, "resumed" once a new connection is open
    premise,        \* history: "empty" before the first frame, "holds" while the frames read are
                    \* 26 bytes long with strictly increasing ordinals, the first below target
    nvalid,         \* history: number of payloads posted to /assertion
    payload,        \* history: the last payload posted to /assertion
    trigger,        \* history: the frame whose apply posted the payload
    asked,          \* history: the depth the /snapshot request asked for, -1 before it
    interrupted     \* history: SIGINT has arrived

vars == <<pc, session, websocket, running, target_ordinal, order_book, msg,
          exit_code, held, loads, dec, startup, loaded, outcome, premise, nvalid, payload,
          trigger, asked, interrupted>>

NoMsg == [len |-> 0, is_bid |-> 0, ordinal_id |-> 0, price |-> 0, quantity |-> 0]
NoPayload == [lastUpdateId |-> -1, bids |-> <<>>, asks |-> <<>>]

--------------------------------------------------------------------------
\* Inputs

\* the price levels (scaled) the snapshot and the frames address
Prices == {1, 2}
Quantities == 0..MaxQty
Ordinals == 0..MaxSeq

\* binary frames of the delta stream: the four fields of struct '>HQQQ' and
\* the length; the frames of another length all hold the same leading bytes
ValidFrames == [len : {FRAME_LEN}, is_bid : {0, 1, 2}, ordinal_id : Ordinals,
                price : Prices, quantity : Quantities]
BadFrames == [len : {FRAME_LEN - 1, FRAME_LEN + 1}, is_bid : {1}, ordinal_id : {MaxSeq},
              price : {1}, quantity : {1}]
Frames == ValidFrames \cup BadFrames

\* decimal strings of a snapshot, in half units: every scaled price, every
\* scaled quantity, and one string between two scaled values on each axis
PriceStrs == {2 * p : p \in Prices} \cup {3}
QtyStrs == {2 * q : q \in Quantities} \cup {1}
SnapLevels == PriceStrs \X QtyStrs

SeqsUpTo(S, n) == UNION {[1..k -> S] : k \in 0..n}

Snapshots == UNION {[lastUpdateId : Ordinals,
                     bids : [1..nb -> SnapLevels],
                     asks : SeqsUpTo(SnapLevels, MaxSnapLevels - nb)] : nb \in 0..MaxSnapLevels}

\* the answer to an HTTP request: a status, or "error" when the request raises
Statuses == {"200", "500", "error"}

\* the body of a 200 answer of /snapshot: a snapshot, no JSON, or JSON without "bids"
Bodies == {"ok", "bad_json", "no_bids"}

--------------------------------------------------------------------------
\* OrderedDict

HasKey(d, k) == \E i \in 1..Len(d) : d[i][1] = k

\* d[k] = v : an existing key keeps its position, a new key goes last
DictSet(d, k, v) ==
    IF HasKey(d, k)
    THEN [i \in 1..Len(d) |-> IF d[i][1] = k THEN <<k, v>> ELSE d[i]]
    ELSE Append(d, <<k, v>>)

\* d.pop(k, None)
DictPop(d, k) == SelectSeq(d, LAMBDA e : e[1] # k)

RemoveAt(s, i) == SubSeq(s, 1, i - 1) \o SubSeq(s, i + 1, Len(s))

\* OrderedDict(sorted(d.items(), key=lambda x: x[0], reverse=reverse))
RECURSIVE SortedItems(_, _)
SortedItems(d, reverse) ==
    IF d = <<>> THEN <<>>
    ELSE LET first == CHOOSE i \in 1..Len(d) : \A j \in 1..Len(d) :
                          IF reverse THEN d[i][1] >= d[j][1] ELSE d[i][1] <= d[j][1]
         IN <<d[first]>> \o SortedItems(RemoveAt(d, first), reverse)

--------------------------------------------------------------------------
\* OrderBook

sort_bids(bids) == SortedItems(bids, TRUE)

sort_asks(asks) == SortedItems(asks, FALSE)

\* update_bid without the re-sort of line 41
update_bid_unsorted(bids, price, quantity) ==
    IF quantity = 0 THEN DictPop(bids, price)
    ELSE DictSet(bids, price, quantity)

update_bid(bids, price, quantity) ==
    IF quantity = 0 THEN DictPop(bids, price)
    ELSE sort_bids(DictSet(bids, price, quantity))

\* update_ask without the quantity == 0 case of lines 45-46
update_ask_stores_zero(asks, price, quantity) ==
    sort_asks(DictSet(asks, price, quantity))

update_ask(asks, price, quantity) ==
    IF quantity = 0 THEN DictPop(asks, price)
    ELSE sort_asks(DictSet(asks, price, quantity))

\* f"{value / 10_000_000:.7f}": seven fractional digits, so a whole number
\* of units, written in half units
format_decimal(value) == 2 * value

\* list(d.items())[:depth]; a negative depth counts from the end
Take(d, depth) ==
    IF depth >= 0 THEN SubSeq(d, 1, IF depth < Len(d) THEN depth ELSE Len(d))
    ELSE SubSeq(d, 1, Len(d) + depth)

FormatLevels(d) == [i \in 1..Len(d) |-> <<format_decimal(d[i][1]), format_decimal(d[i][2])>>]

\* to_json without the [:self.depth] slices
to_json_unsliced(book) ==
    [json |-> [lastUpdateId |-> book.last_update_id,
               bids |-> FormatLevels(book.bids),
               asks |-> FormatLevels(book.asks)],
     self |-> book]

\* to_json(): the dict it returns (json) and the OrderBook it leaves (self);
\* list(...) copies the items, so the slices leave the ledgers alone
to_json(book) ==
    [json |-> [lastUpdateId |-> book.last_update_id,
               bids |-> FormatLevels(Take(book.bids, book.depth)),
               asks |-> FormatLevels(Take(book.asks, book.depth))],
     self |-> book]

EmptyBook(depth) == [depth |-> depth, bids |-> <<>>, asks |-> <<>>, last_update_id |-> 0]

--------------------------------------------------------------------------
\* OrderBookClient

\* int(float(s) * 10_000_000): int() truncates towards zero
parse_decimal(s) == s \div 2

\* for level in levels: d[price] = quantity
RECURSIVE LoadLevels(_, _)
LoadLevels(d, levels) ==
    IF levels = <<>> THEN d
    ELSE LoadLevels(DictSet(d, parse_decimal(levels[1][1]), parse_decimal(levels[1][2])),
                    Tail(levels))

\* _process_snapshot without the clear() calls of lines 137-138
process_snapshot_merging(book, snapshot) ==
    [book EXCEPT !.last_update_id = snapshot.lastUpdateId,
                 !.bids = sort_bids(LoadLevels(@, snapshot.bids)),
                 !.asks = sort_asks(LoadLevels(@, snapshot.asks))]

process_snapshot(book, snapshot) ==
    [book EXCEPT !.last_update_id = snapshot.lastUpdateId,
                 !.bids = sort_bids(LoadLevels(<<>>, snapshot.bids)),
                 !.asks = sort_asks(LoadLevels(<<>>, snapshot.asks))]

\* _process_delta that takes side 0 for the asks and drops the other sides
apply_delta_known_sides(book, m) ==
    [book EXCEPT !.bids = IF m.is_bid = 1 THEN update_bid(@, m.price, m.quantity) ELSE @,
                 !.asks = IF m.is_bid = 0 THEN update_ask(@, m.price, m.quantity) ELSE @,
                 !.last_update_id = m.ordinal_id]

\* _process_delta that skips a frame whose ordinal does not follow last_update_id
apply_delta_in_sequence(book, m) ==
    IF m.ordinal_id = book.last_update_id + 1
    THEN [book EXCEPT !.bids = IF m.is_bid = 1 THEN update_bid(@, m.price, m.quantity) ELSE @,
                      !.asks = IF m.is_bid = 1 THEN @ ELSE update_ask(@, m.price, m.quantity),
                      !.last_update_id = m.ordinal_id]
    ELSE book

\* the mirror after lines 191-199 of _process_delta on a 26-byte frame
apply_delta(book, m) ==
    [book EXCEPT !.bids = IF m.is_bid = 1 THEN update_bid(@, m.price, m.quantity) ELSE @,
                 !.asks = IF m.is_bid = 1 THEN @ ELSE update_ask(@, m.price, m.quantity),
                 !.last_update_id = m.ordinal_id]

\* cleanup(): self.running = False, close the websocket if one is set, close the session
cleanup_websocket(ws) == IF ws = "none" THEN "none" ELSE "closed"

cleanup_session(s) == IF s = "none" THEN "none" ELSE "closed"

\* what line 195 or 197 does to the ledger it addresses
Effect(book, m) ==
    LET d == IF m.is_bid = 1 THEN book.bids ELSE book.asks
    IN IF m.quantity # 0 THEN "set" ELSE IF HasKey(d, m.price) THEN "removed" ELSE "absent"

replay == <<held, loads, dec>>

hist == <<startup, loaded, outcome, premise, nvalid, payload, trigger, asked, interrupted>>

NoSnapshot == [lastUpdateId |-> 0, bids |-> <<>>, asks |-> <<>>]

NoReplay == [snapshot |-> NoSnapshot, before |-> EmptyBook(0)]

NoDecimal == [stage |-> "none", value |-> <<>>, string |-> <<>>, back |-> <<>>]

Init ==
    /\ pc = "main"
    /\ session = "none"
    /\ websocket = "none"
    /\ running = FALSE
    \* --ob-id: one ordinal lies above the target, the others below it
    /\ target_ordinal = MaxSeq - 1
    /\ held = NoReplay
    /\ loads = 0
    /\ dec = NoDecimal
    /\ startup = <<"none", "none">>
    /\ order_book \in {EmptyBook(d) : d \in 0..MaxDepth}
    /\ msg = NoMsg
    /\ exit_code = -1
    /\ loaded = FALSE
    /\ outcome = "none"
    /\ premise = "empty"
    /\ nvalid = 0
    /\ payload = NoPayload
    /\ trigger = NoMsg
    /\ asked = -1
    /\ interrupted = FALSE

\* main() calls start(): the HTTP session is created
Start ==
    /\ pc = "main"
    /\ session' = "open"
    /\ pc' = "start_server"
    /\ UNCHANGED <<websocket, running, target_ordinal, order_book, msg, exit_code>>
    /\ UNCHANGED <<replay, hist>>

\* an exception in start(): cleanup(), re-raise; main() logs it, sys.exit(1),
\* and its finally clause runs cleanup() again
Abort ==
    /\ running' = FALSE
    /\ websocket' = cleanup_websocket(websocket)
    /\ session' = cleanup_session(session)
    /\ exit_code' = 1
    /\ pc' = "exited"

\* _start_server without the status check of lines 118-119
StartServerUnchecked(status) ==
    /\ pc = "start_server"
    /\ pc' = "get_snapshot"
    /\ startup' = <<status, "none">>
    /\ UNCHANGED <<session, websocket, running, exit_code>>
    /\ UNCHANGED <<target_ordinal, order_book, msg, replay>>
    /\ UNCHANGED <<loaded, outcome, premise, nvalid, payload, trigger, asked, interrupted>>

\* _start_server: POST /start answers with a status, or the request fails ("error")
StartServer(status) ==
    /\ pc = "start_server"
    /\ IF status = "200"
       THEN /\ pc' = "get_snapshot"
            /\ UNCHANGED <<session, websocket, running, exit_code>>
       ELSE Abort
    /\ startup' = <<status, "none">>
    /\ UNCHANGED <<target_ordinal, order_book, msg, replay>>
    /\ UNCHANGED <<loaded, outcome, premise, nvalid, payload, trigger, asked, interrupted>>

\* _get_snapshot: GET /snapshot answers with a status and a body; a body that
\* is no JSON raises in response.json(), a body without "bids" raises in
\* _process_snapshot after last_update_id is set and the ledgers are cleared.
\* On success start() goes on into _connect_websocket: self.running = True.
GetSnapshot(status, body, snapshot) ==
    /\ pc = "get_snapshot"
    /\ IF status = "200" /\ body = "ok"
       THEN /\ order_book' = process_snapshot(order_book, snapshot)
            /\ loaded' = TRUE
            /\ loads' = loads + 1
            /\ running' = TRUE
            /\ pc' = "connect"
            /\ UNCHANGED <<session, websocket, exit_code>>
       ELSE /\ order_book' = IF status = "200" /\ body = "no_bids"
                             THEN [order_book EXCEPT !.last_update_id = snapshot.lastUpdateId,
                                                     !.bids = <<>>, !.asks = <<>>]
                             ELSE order_book
            /\ Abort
            /\ UNCHANGED <<loaded, loads>>
    /\ startup' = <<status, IF status = "200" THEN body ELSE "none">>
    /\ asked' = SNAPSHOT_DEPTH
    /\ UNCHANGED <<target_ordinal, msg, held, dec>>
    /\ UNCHANGED <<outcome, premise, nvalid, payload, trigger, interrupted>>

\* _connect_websocket, top of "while self.running" with self.running set:
\* websockets.connect succeeds, or raises and the handler sleeps (it is running)
Connect(ok) ==
    /\ pc = "connect"
    /\ running
    /\ IF ok
       THEN /\ websocket' = "open"
            /\ outcome' = IF websocket = "closed" THEN "resumed" ELSE outcome
            /\ pc' = "recv"
       ELSE /\ pc' = "backoff"
            /\ UNCHANGED <<websocket, outcome>>
    /\ UNCHANGED <<session, running, target_ordinal, order_book, msg, exit_code>>
    /\ UNCHANGED <<replay, startup, loaded, premise, nvalid, payload, trigger, asked, interrupted>>

\* "while self.running" is false: _connect_websocket and start() return,
\* main()'s finally clause runs cleanup() and the process ends normally
LoopExit ==
    /\ pc = "connect"
    /\ ~running
    /\ websocket' = cleanup_websocket(websocket)
    /\ session' = cleanup_session(session)
    /\ exit_code' = 0
    /\ pc' = "exited"
    /\ UNCHANGED <<running, target_ordinal, order_book, msg>>
    /\ UNCHANGED <<replay, hist>>

\* "async for message in websocket" yields the next frame
Deliver(frame) ==
    /\ pc = "recv"
    /\ msg' = frame
    /\ outcome' = "pending"
    /\ pc' = "process"
    /\ UNCHANGED <<session, websocket, running, target_ordinal, order_book, exit_code>>
    /\ UNCHANGED <<replay, startup, loaded, premise, nvalid, payload, trigger, asked, interrupted>>

\* whether the frames read so far, msg included, are 26 bytes long with
\* strictly increasing ordinals, the first below target
PremiseAfter ==
    IF msg.len # FRAME_LEN THEN "broken"
    ELSE IF premise = "empty"
         THEN (IF msg.ordinal_id < target_ordinal THEN "holds" ELSE "broken")
    ELSE IF premise = "holds" /\ msg.ordinal_id > order_book.last_update_id THEN "holds"
    ELSE "broken"

\* a length check that lets longer frames through
discards_short(m) == m.len < FRAME_LEN

\* _process_delta, lines 185-187
discards(m) == m.len # FRAME_LEN

\* a comparison that triggers one ordinal early
reached_early(m, target) == m.ordinal_id + 1 >= target

\* _process_delta, line 207
reached(m, target) == m.ordinal_id >= target

\* the payload taken before the delta is applied
serialized_before(before, after) == [json |-> to_json(before).json, self |-> after]

\* _validate_order_book, line 220: the payload is taken from the mirror as
\* _process_delta leaves it at line 199; before is the mirror at line 191
serialized(before, after) == to_json(after)

\* the body of the stream loop, lines 171-173, with _process_delta up to the
\* POST of the payload to /assertion
Process ==
    /\ pc = "process"
    /\ premise' = PremiseAfter
    /\ IF ~running
       THEN \* break: the connection's context manager closes it
            /\ websocket' = "closed"
            /\ outcome' = "stopped"
            /\ pc' = "connect"
            /\ UNCHANGED <<order_book, nvalid, payload, trigger>>
       ELSE IF discards(msg)
       THEN /\ outcome' = "discarded"
            /\ pc' = "recv"
            /\ UNCHANGED <<websocket, order_book, nvalid, payload, trigger>>
       ELSE /\ outcome' = Effect(order_book, msg)
            /\ IF reached(msg, target_ordinal)
               THEN LET sent == serialized(order_book, apply_delta(order_book, msg))
                    IN /\ order_book' = sent.self
                       /\ payload' = sent.json
                       /\ nvalid' = nvalid + 1
                       /\ trigger' = msg
                       /\ pc' = "validating"
               ELSE /\ order_book' = apply_delta(order_book, msg)
                    /\ pc' = "recv"
                    /\ UNCHANGED <<nvalid, payload, trigger>>
            /\ UNCHANGED websocket
    /\ msg' = NoMsg
    /\ UNCHANGED <<session, running, target_ordinal, exit_code, replay, startup, loaded>>
    /\ UNCHANGED <<asked, interrupted>>

\* _validate_order_book that raises on an answer other than 200
ValidateDoneFatal(status) ==
    /\ pc = "validating"
    /\ IF status = "200"
       THEN /\ running' = FALSE
            /\ pc' = "recv"
            /\ UNCHANGED <<session, websocket, exit_code>>
       ELSE Abort
    /\ outcome' = status
    /\ UNCHANGED <<target_ordinal, order_book, msg>>
    /\ UNCHANGED <<replay, startup, loaded, premise, nvalid, payload, trigger, asked, interrupted>>

\* _validate_order_book: /assertion answers with a status or the POST raises;
\* each is logged, and _process_delta goes on to self.running = False
ValidateDone(status) ==
    /\ pc = "validating"
    /\ running' = FALSE
    /\ pc' = "recv"
    /\ outcome' = status
    /\ UNCHANGED <<session, websocket, target_ordinal, order_book, msg, exit_code>>
    /\ UNCHANGED <<replay, startup, loaded, premise, nvalid, payload, trigger, asked, interrupted>>

\* the stream ends with a normal close: "async for" ends without an
\* exception, and the loop goes back to "while self.running" without a sleep
CloseOK ==
    /\ pc = "recv"
    /\ websocket' = "closed"
    /\ pc' = "connect"
    /\ UNCHANGED <<session, running, target_ordinal, order_book, msg, exit_code>>
    /\ UNCHANGED <<replay, hist>>

\* the stream raises: ConnectionClosed always sleeps, any other exception
\* sleeps only while self.running
StreamError(closed) ==
    /\ pc = "recv"
    /\ websocket' = "closed"
    /\ pc' = IF closed \/ running THEN "backoff" ELSE "connect"
    /\ UNCHANGED <<session, running, target_ordinal, order_book, msg, exit_code>>
    /\ UNCHANGED <<replay, hist>>

\* a backoff after which start() fetches the snapshot again
BackoffDoneReloading ==
    /\ pc = "backoff"
    /\ pc' = "get_snapshot"
    /\ UNCHANGED <<session, websocket, running, target_ordinal, order_book, msg, exit_code>>
    /\ UNCHANGED <<replay, hist>>

\* asyncio.sleep(1) returns
BackoffDone ==
    /\ pc = "backoff"
    /\ pc' = "connect"
    /\ UNCHANGED <<session, websocket, running, target_ordinal, order_book, msg, exit_code>>
    /\ UNCHANGED <<replay, hist>>

\* the positions at which start() awaits: the two requests, the connection,
\* the next frame, the answer of /assertion, the sleep
Positions == {"start_server", "get_snapshot", "connect", "recv", "validating", "backoff"}

\* SIGINT while main() runs under asyncio.run (lines 257-265, 268).  Raised
\* as KeyboardInterrupt inside the coroutine it passes every "except
\* Exception" and is caught at line 259: the process ends normally.
\* Delivered as the cancellation of the main task, or raised in the event
\* loop, it passes line 259 as well, and asyncio.run raises KeyboardInterrupt
\* once the task has ended: the process dies of the signal (status 130).
\* Which of the two happens depends on the interpreter and on the moment;
\* the finally clause of line 264 runs cleanup() in both.  The interrupt
\* takes effect where start() awaits: one that arrives while a frame is
\* handled ends the run at the await that follows.
Interrupt(caught) ==
    /\ pc \in Positions
    /\ interrupted' = TRUE
    /\ running' = FALSE
    /\ websocket' = cleanup_websocket(websocket)
    /\ session' = cleanup_session(session)
    /\ exit_code' = IF caught THEN 0 ELSE 130
    /\ msg' = NoMsg
    /\ pc' = "exited"
    /\ UNCHANGED <<target_ordinal, order_book, replay>>
    /\ UNCHANGED <<startup, loaded, outcome, premise, nvalid, payload, trigger, asked>>

Next ==
    \/ Start
    \/ pc = "start_server" /\ \E status \in Statuses : StartServer(status)
    \/ pc = "get_snapshot" /\ \E status \in Statuses, body \in Bodies,
                                 snapshot \in Snapshots : GetSnapshot(status, body, snapshot)
    \/ pc = "connect" /\ \E ok \in BOOLEAN : Connect(ok)
    \/ LoopExit
    \/ pc = "recv" /\ \E frame \in Frames : Deliver(frame)
    \/ Process
    \/ pc = "validating" /\ \E status \in Statuses : ValidateDone(status)
    \/ CloseOK
    \/ pc = "recv" /\ \E closed \in BOOLEAN : StreamError(closed)
    \/ BackoffDone
    \/ pc \in Positions /\ \E caught \in BOOLEAN : Interrupt(caught)

Spec == Init /\ [][Next]_vars

\* the steps the controller takes by itself once the answer it awaits, if
\* any, is there; the others are the events of the stream (a frame, a close,
\* an error) and the interrupt
OwnStep ==
    \/ Start
    \/ pc = "start_server" /\ \E status \in Statuses : StartServer(status)
    \/ pc = "get_snapshot" /\ \E status \in Statuses, body \in Bodies,
                                 snapshot \in Snapshots : GetSnapshot(status, body, snapshot)
    \/ pc = "connect" /\ \E ok \in BOOLEAN : Connect(ok)
    \/ LoopExit
    \/ Process
    \/ pc = "validating" /\ \E status \in Statuses : ValidateDone(status)
    \/ BackoffDone

\* the frames of one price level of the bid side, and those of another length
FairFrames == {frame \in Frames : frame.is_bid = 1 /\ frame.price = 1}

\* the snapshots of an empty book
FairSnapshots == {snapshot \in Snapshots : snapshot.bids = <<>> /\ snapshot.asks = <<>>}

\* the runs that load a snapshot of FairSnapshots and whose stream delivers
\* the frames of FairFrames only
NextFair ==
    \/ Start
    \/ pc = "start_server" /\ \E status \in Statuses : StartServer(status)
    \/ pc = "get_snapshot" /\ \E status \in Statuses, body \in Bodies,
                                 snapshot \in FairSnapshots : GetSnapshot(status, body, snapshot)
    \/ pc = "connect" /\ \E ok \in BOOLEAN : Connect(ok)
    \/ LoopExit
    \/ pc = "recv" /\ \E frame \in FairFrames : Deliver(frame)
    \/ Process
    \/ pc = "validating" /\ \E status \in Statuses : ValidateDone(status)
    \/ CloseOK
    \/ pc = "recv" /\ \E closed \in BOOLEAN : StreamError(closed)
    \/ BackoffDone
    \/ pc \in Positions /\ \E caught \in BOOLEAN : Interrupt(caught)

\* the event loop runs the controller whenever it can take a step; nothing
\* is assumed of the stream
SpecFair == Init /\ [][NextFair]_vars /\ WF_vars(OwnStep)

\* an event of the stream: a frame, a close, an error
StreamStep ==
    \/ pc = "recv" /\ \E frame \in FairFrames : Deliver(frame)
    \/ CloseOK
    \/ pc = "recv" /\ \E closed \in BOOLEAN : StreamError(closed)

\* as SpecFair, with a stream that never stays silent for ever
SpecFairStream == SpecFair /\ WF_vars(StreamStep)

--------------------------------------------------------------------------
\* _process_snapshot replayed: a mirror in any state loads the same snapshot
\* twice

FullLedger(quantity, reverse) ==
    SortedItems([i \in 1..Cardinality(Prices) |->
                    <<CHOOSE p \in Prices : Cardinality({r \in Prices : r < p}) = i - 1, quantity>>],
                reverse)

ReplayBooks ==
    {EmptyBook(d) : d \in 0..MaxDepth}
    \cup {[depth |-> d, bids |-> FullLedger(q, TRUE), asks |-> FullLedger(q, FALSE),
           last_update_id |-> MaxSeq] : d \in 0..MaxDepth, q \in 1..MaxQty}

InitSnapshot ==
    /\ pc = "replay"
    /\ session = "open"
    /\ websocket = "none"
    /\ running = FALSE
    /\ target_ordinal = MaxSeq - 1
    /\ order_book \in ReplayBooks
    /\ held \in [snapshot : Snapshots, before : {order_book}]
    /\ loads = 0
    /\ dec = NoDecimal
    /\ msg = NoMsg
    /\ exit_code = -1
    /\ startup = <<"200", "ok">>
    /\ loaded = FALSE
    /\ outcome = "none"
    /\ premise = "empty"
    /\ nvalid = 0
    /\ payload = NoPayload
    /\ trigger = NoMsg
    /\ asked = -1
    /\ interrupted = FALSE

Reload ==
    /\ pc = "replay"
    /\ loads < 2
    /\ order_book' = process_snapshot(order_book, held.snapshot)
    /\ loads' = loads + 1
    /\ loaded' = TRUE
    /\ UNCHANGED <<pc, session, websocket, running, target_ordinal, msg, exit_code, held, dec>>
    /\ UNCHANGED <<startup, outcome, premise, nvalid, payload, trigger, asked, interrupted>>

NextSnapshot == Reload

SpecSnapshot == InitSnapshot /\ [][NextSnapshot]_vars

--------------------------------------------------------------------------
\* format_decimal replayed over the unsigned 64-bit range.  A value of that
\* range is a sequence of bits, lowest first, ending in a 1 (<<>> is 0).  A
\* float is m * 2^e, m of at most MANT_BITS bits (to MANT_BITS + 1 when a
\* rounding carries).

\* value / 10_000_000
SCALE == 10000000

\* the precision of a Python float (IEEE 754 binary64)
MANT_BITS == 53

\* struct format 'Q': unsigned, 8 bytes
U64_BITS == 64

\* the number of fractional digits of ":.7f"
FRAC_DIGITS == 7

RECURSIVE Pow(_, _)
Pow(base, n) == IF n = 0 THEN 1 ELSE base * Pow(base, n - 1)

\* arithmetic runs on limbs of LIMB_BITS bits, lowest first
LIMB_BITS == 6

LIMB == Pow(2, LIMB_BITS)

Trim(b) ==
    LET set == {i \in 1..Len(b) : b[i] = 1}
    IN IF set = {} THEN <<>> ELSE SubSeq(b, 1, CHOOSE i \in set : \A j \in set : j <= i)

RECURSIVE Bits(_)
Bits(n) == IF n = 0 THEN <<>> ELSE <<n % 2>> \o Bits(n \div 2)

BitAt(b, i) == IF i <= Len(b) THEN b[i] ELSE 0

ToLimbs(b) ==
    [i \in 1..((Len(b) + LIMB_BITS - 1) \div LIMB_BITS) |->
        LET at(j) == BitAt(b, LIMB_BITS * (i - 1) + j + 1) * Pow(2, j)
        IN at(0) + at(1) + at(2) + at(3) + at(4) + at(5)]

ToBits(limbs) ==
    Trim([i \in 1..(LIMB_BITS * Len(limbs)) |->
             (limbs[(i - 1) \div LIMB_BITS + 1] \div Pow(2, (i - 1) % LIMB_BITS)) % 2])

LimbAt(a, i) == IF i <= Len(a) THEN a[i] ELSE 0

\* a + b + carry
RECURSIVE LimbPlus(_, _, _)
LimbPlus(a, b, carry) ==
    IF a = <<>> /\ b = <<>> THEN (IF carry = 0 THEN <<>> ELSE <<carry>>)
    ELSE LET x == LimbAt(a, 1) + LimbAt(b, 1) + carry
         IN <<x % LIMB>> \o LimbPlus(IF a = <<>> THEN a ELSE Tail(a),
                                     IF b = <<>> THEN b ELSE Tail(b), x \div LIMB)

Plus(a, b) == ToBits(LimbPlus(ToLimbs(a), ToLimbs(b), 0))

\* a * c + carry, for c within the scale
RECURSIVE LimbTimes(_, _, _)
LimbTimes(a, c, carry) ==
    IF a = <<>> THEN ToLimbs(Bits(carry))
    ELSE LET x == a[1] * c + carry
         IN <<x % LIMB>> \o LimbTimes(Tail(a), c, x \div LIMB)

Times(a, c) == ToBits(LimbTimes(ToLimbs(a), c, 0))

\* divmod(a, d) for d within the scale
RECURSIVE LimbDivRem(_, _)
LimbDivRem(a, d) ==
    IF a = <<>> THEN [q |-> <<>>, r |-> 0]
    ELSE LET high == LimbDivRem(Tail(a), d)
             x == LIMB * high.r + a[1]
         IN [q |-> <<x \div d>> \o high.q, r |-> x % d]

DivRem(a, d) ==
    LET qr == LimbDivRem(ToLimbs(a), d)
    IN [q |-> ToBits(qr.q), r |-> qr.r]

ShiftL(a, k) == IF a = <<>> THEN a ELSE [i \in 1..k |-> 0] \o a

ShiftR(a, k) == SubSeq(a, k + 1, Len(a))

\* (a + x) / 2^k for k >= 1 rounded to the nearest integer, ties to even;
\* x is 0, or some value in (0, 1) when inexact
RoundShift(a, k, inexact) ==
    LET q == ShiftR(a, k)
        half == BitAt(a, k) = 1
        low == inexact \/ \E i \in 1..(k - 1) : BitAt(a, i) = 1
        odd == BitAt(q, 1) = 1
    IN IF half /\ (low \/ odd) THEN Plus(q, <<1>>) ELSE q

\* the float nearest to (a + x) * 2^e
RoundToFloat(a, e, inexact) ==
    IF Len(a) <= MANT_BITS THEN [m |-> a, e |-> e]
    ELSE [m |-> RoundShift(a, Len(a) - MANT_BITS, inexact), e |-> e + Len(a) - MANT_BITS]

\* a / d of two ints, d within the scale: the float nearest to the quotient.
\* The dividend is shifted so that the integer quotient has more than
\* MANT_BITS + 1 bits and the remainder only tells whether it is exact.
TrueDiv(a, d) ==
    IF a = <<>> THEN [m |-> <<>>, e |-> 0]
    ELSE LET k == MANT_BITS + 2 + Len(Bits(d)) - Len(a)
             qr == DivRem(ShiftL(a, k), d)
         IN RoundToFloat(qr.q, 0 - k, qr.r # 0)

\* x * c of a float and an int within the scale
FloatTimes(x, c) == RoundToFloat(Times(x.m, c), x.e, FALSE)

\* round(x): the nearest integer, ties to even
RoundFloat(x) == IF x.e >= 0 THEN ShiftL(x.m, x.e) ELSE RoundShift(x.m, 0 - x.e, FALSE)

\* the decimal digits of r, FRAC_DIGITS of them, and back
FracDigits(r) == [i \in 1..FRAC_DIGITS |-> (r \div Pow(10, FRAC_DIGITS - i)) % 10]

RECURSIVE FracValue(_)
FracValue(digits) ==
    IF digits = <<>> THEN 0 ELSE 10 * FracValue(SubSeq(digits, 1, Len(digits) - 1)) + digits[Len(digits)]

\* f"{value / 10_000_000:.7f}" for an int of any size: the division gives a
\* float, ":.7f" writes the decimal with 7 fractional digits nearest to that
\* float.  The string is its integer part and its fractional digits.
format_decimal_u64(value) ==
    LET x == TrueDiv(value, SCALE)
        scaled == LET p == Times(x.m, SCALE)
                  IN IF x.e >= 0 THEN ShiftL(p, x.e) ELSE RoundShift(p, 0 - x.e, FALSE)
        qr == DivRem(scaled, SCALE)
    IN [int |-> qr.q, frac |-> FracDigits(qr.r)]

\* the number of 10^-7 units a string denotes
Denotes(string) == Plus(Times(string.int, SCALE), Bits(FracValue(string.frac)))

\* round(float(string) * 10_000_000)
parse_back(string) == RoundFloat(FloatTimes(TrueDiv(Denotes(string), SCALE), SCALE))

\* values of the unsigned 64-bit range: the small ones, and around each power of 2
Ones(k) == [i \in 1..k |-> 1]

Pow2(k) == [i \in 1..(k + 1) |-> IF i = k + 1 THEN 1 ELSE 0]

MaxSmall == 40

U64Values ==
    {Bits(n) : n \in 0..MaxSmall}
    \cup {Pow2(k) : k \in 0..(U64_BITS - 1)}
    \cup {Plus(Pow2(k), <<1>>) : k \in 0..(U64_BITS - 1)}
    \cup {Ones(k) : k \in 1..U64_BITS}

InitDecimal ==
    /\ pc = "decimal"
    /\ session = "open"
    /\ websocket = "none"
    /\ running = FALSE
    /\ target_ordinal = MaxSeq - 1
    /\ order_book = EmptyBook(0)
    /\ held = NoReplay
    /\ loads = 0
    /\ dec \in [stage : {"value"}, value : U64Values, string : {<<>>}, back : {<<>>}]
    /\ msg = NoMsg
    /\ exit_code = -1
    /\ startup = <<"none", "none">>
    /\ loaded = FALSE
    /\ outcome = "none"
    /\ premise = "empty"
    /\ nvalid = 0
    /\ payload = NoPayload
    /\ trigger = NoMsg
    /\ asked = -1
    /\ interrupted = FALSE

FormatValue ==
    /\ pc = "decimal"
    /\ dec.stage = "value"
    /\ dec' = [dec EXCEPT !.stage = "string", !.string = format_decimal_u64(dec.value)]
    /\ UNCHANGED <<pc, session, websocket, running, target_ordinal, order_book, msg, exit_code>>
    /\ UNCHANGED <<held, loads, hist>>

ParseString ==
    /\ pc = "decimal"
    /\ dec.stage = "string"
    /\ dec' = [dec EXCEPT !.stage = "parsed", !.back = parse_back(dec.string)]
    /\ UNCHANGED <<pc, session, websocket, running, target_ordinal, order_book, msg, exit_code>>
    /\ UNCHANGED <<held, loads, hist>>

NextDecimal == FormatValue \/ ParseString

SpecDecimal == InitDecimal /\ [][NextDecimal]_vars

--------------------------------------------------------------------------
\* Properties

Bids == order_book.bids
Asks == order_book.asks

StrictlyDescending(d) == \A i, j \in 1..Len(d) : i < j => d[i][1] > d[j][1]
StrictlyAscending(d) == \A i, j \in 1..Len(d) : i < j => d[i][1] < d[j][1]

\* the quantity a ledger holds at a price, -1 when it holds none
Lookup(d, k) == IF HasKey(d, k) THEN (CHOOSE e \in {d[i] : i \in 1..Len(d)} : e[1] = k)[2] ELSE -1

\* the ledger a frame addresses
Addressed(book, m) == IF m.is_bid = 1 THEN book.bids ELSE book.asks
Other(book, m) == IF m.is_bid = 1 THEN book.asks ELSE book.bids

Min(a, b) == IF a < b THEN a ELSE b

\* out is the first Min(n, Len(d)) entries of d, as decimal strings
IsTop(out, d, n) ==
    /\ Len(out) = Min(n, Len(d))
    /\ \A i \in 1..Len(out) : out[i] = <<format_decimal(d[i][1]), format_decimal(d[i][2])>>

\* a step of the stream loop that handles a frame while self.running is set
Handles == pc = "process" /\ running /\ ~interrupted'

\* a step that posts a payload to /assertion
Posts == nvalid' = nvalid + 1

\* C1 (as claimed): while the frames read are 26 bytes long with strictly
\* increasing ordinals, the first below target, a payload is posted exactly
\* when the first frame with ordinal >= target is handled, never twice; and
\* once it is posted the mirror is not changed, the stream is not opened and
\* no further frame of such a stream is read.
C1_ValidatesOnceThenLeavesStream ==
    [][/\ nvalid' <= 1
       /\ (pc = "process" /\ ~interrupted' /\ PremiseAfter = "holds")
             => (Posts <=> (nvalid = 0 /\ msg.ordinal_id >= target_ordinal))
       /\ (nvalid = 1 /\ premise = "holds")
             => /\ order_book' = order_book
                /\ ~(pc = "connect" /\ pc' = "recv")
                /\ ~(/\ pc = "recv" /\ pc' = "process"
                     /\ msg'.len = FRAME_LEN
                     /\ msg'.ordinal_id > order_book.last_update_id)]_vars

\* C1, the part that holds: as above, without the clause on reading a frame.
C1_ValidatesOnceNoApplyNoReopen ==
    [][/\ nvalid' <= 1
       /\ (pc = "process" /\ ~interrupted' /\ PremiseAfter = "holds")
             => (Posts <=> (nvalid = 0 /\ msg.ordinal_id >= target_ordinal))
       /\ (nvalid = 1 /\ premise = "holds")
             => /\ order_book' = order_book
                /\ ~(pc = "connect" /\ pc' = "recv")]_vars

\* C2: once the snapshot is loaded, in every state the bids iterate in
\* strictly descending and the asks in strictly ascending price order, so no
\* price appears twice on a side.
C2_LedgersSorted ==
    loaded => StrictlyDescending(Bids) /\ StrictlyAscending(Asks)

C2_Witness ==
    /\ loaded
    /\ outcome = "set"
    /\ Len(Bids) = 2
    /\ Len(Asks) = 2

\* C3 (as claimed): no entry of the bid or the ask ledger has quantity 0, in
\* any state.
C3_NoZeroQuantity ==
    /\ \A i \in 1..Len(Bids) : Bids[i][2] # 0
    /\ \A i \in 1..Len(Asks) : Asks[i][2] # 0

\* C4 (as claimed): once the snapshot is loaded no step decreases
\* last_update_id.
C4_LastUpdateIdNeverDecreases ==
    [][loaded => order_book'.last_update_id >= order_book.last_update_id]_vars

\* C5: a frame whose length is not 26 changes neither the mirror nor the
\* validations, and leaves the stream loop reading on the same connection; a
\* 26-byte frame handled by the running loop, whatever was discarded before
\* it, is applied: last_update_id is its ordinal and the ledger it addresses
\* holds its quantity at its price (no entry when the quantity is 0).
C5_MalformedFrameDiscarded ==
    [][Handles =>
         IF msg.len # FRAME_LEN
         THEN /\ order_book' = order_book
              /\ nvalid' = nvalid
              /\ payload' = payload
              /\ pc' = "recv"
              /\ running'
              /\ websocket' = "open"
         ELSE /\ order_book'.last_update_id = msg.ordinal_id
              /\ Lookup(Addressed(order_book', msg), msg.price)
                    = (IF msg.quantity = 0 THEN -1 ELSE msg.quantity)]_vars

C5_Witness ==
    /\ outcome = "discarded"
    /\ pc = "recv"
    /\ running
    /\ Len(Bids) + Len(Asks) >= 1

\* C6: a 26-byte frame with quantity 0 whose price is present on the side it
\* addresses removes that one entry and keeps the others in their order; one
\* whose price is absent leaves that ledger as it is.
C6_ZeroQuantityRemoves ==
    [][(Handles /\ msg.len = FRAME_LEN /\ msg.quantity = 0) =>
         LET d == Addressed(order_book, msg)
             e == Addressed(order_book', msg)
         IN IF HasKey(d, msg.price)
            THEN /\ Len(e) = Len(d) - 1
                 /\ \E i \in 1..Len(d) : d[i][1] = msg.price /\ e = RemoveAt(d, i)
            ELSE e = d]_vars

C6_Witness ==
    /\ outcome = "removed"
    /\ Len(Bids) >= 1
    /\ Len(Asks) >= 1

\* C7: the payload posted is taken after the triggering frame is applied:
\* its lastUpdateId is that frame's ordinal, and its bids and asks are the
\* first depth levels of the mirror with the frame applied, so a price the
\* frame removes is not in it and a level the frame sets is in it unless
\* depth better levels fill the side.
C7_PayloadAfterTrigger ==
    [][Posts =>
         LET after == apply_delta(order_book, msg)
             side == IF msg.is_bid = 1 THEN payload'.bids ELSE payload'.asks
             level == <<format_decimal(msg.price), format_decimal(msg.quantity)>>
         IN /\ trigger' = msg
            /\ payload'.lastUpdateId = msg.ordinal_id
            /\ payload'.bids = FormatLevels(Take(after.bids, after.depth))
            /\ payload'.asks = FormatLevels(Take(after.asks, after.depth))
            /\ msg.quantity = 0
                  => \A i \in 1..Len(side) : side[i][1] # format_decimal(msg.price)
            /\ msg.quantity # 0
                  => \/ \E i \in 1..Len(side) : side[i] = level
                     \/ Len(side) = after.depth]_vars

C7_Witness ==
    /\ pc = "validating"
    /\ outcome = "removed"
    /\ trigger.is_bid = 1
    /\ trigger.ordinal_id = target_ordinal
    /\ payload.lastUpdateId = target_ordinal
    /\ payload.bids = <<>>
    /\ payload.asks # <<>>

\* C8: after a load the mirror is what the same load makes of an empty
\* mirror: last_update_id is the snapshot's, each side holds the parsed
\* levels of the snapshot and nothing of the mirror before, in sorted order;
\* so the second load of the same snapshot changes nothing.
C8_SnapshotReplacesMirror ==
    loads >= 1 =>
        /\ order_book = process_snapshot(EmptyBook(order_book.depth), held.snapshot)
        /\ order_book.last_update_id = held.snapshot.lastUpdateId
        /\ \A p \in Prices :
              /\ HasKey(Bids, p)
                    <=> \E i \in 1..Len(held.snapshot.bids) :
                            parse_decimal(held.snapshot.bids[i][1]) = p
              /\ HasKey(Asks, p)
                    <=> \E i \in 1..Len(held.snapshot.asks) :
                            parse_decimal(held.snapshot.asks[i][1]) = p
        /\ StrictlyDescending(Bids)
        /\ StrictlyAscending(Asks)

C8_Witness ==
    /\ loads = 2
    /\ held.before.bids # <<>>
    /\ Len(held.snapshot.bids) = 1
    /\ Len(Bids) = 1
    /\ held.snapshot.lastUpdateId < held.before.last_update_id

\* C9: for a depth >= 0 the payload holds last_update_id and, for each side,
\* exactly the first min(depth, size) entries of the ledger, best first, and
\* taking it leaves the mirror as the applied frame left it.
C9_SerializeTopDepth ==
    [][Posts =>
         LET book == apply_delta(order_book, msg)
         IN /\ payload'.lastUpdateId = book.last_update_id
            /\ IsTop(payload'.bids, book.bids, book.depth)
            /\ IsTop(payload'.asks, book.asks, book.depth)
            /\ \A i \in 1..Len(payload'.bids), j \in 1..Len(book.bids) :
                  i < j => book.bids[i][1] > book.bids[j][1]
            /\ \A i \in 1..Len(payload'.asks), j \in 1..Len(book.asks) :
                  i < j => book.asks[i][1] < book.asks[j][1]
            /\ order_book' = book]_vars

C9_Witness ==
    /\ nvalid = 1
    /\ Len(Bids) > order_book.depth
    /\ Len(payload.bids) = order_book.depth
    /\ Len(Asks) < order_book.depth
    /\ Len(payload.asks) = Len(Asks)

\* C10: when /start or /snapshot answers with a failure, or the snapshot body
\* is malformed, the run has ended with exit status 1 and the session
\* closed, and no stream was opened, no frame handled and no payload posted.
C10_StartupFailureAborts ==
    (startup[1] \in {"500", "error"} \/ startup[2] \in {"bad_json", "no_bids"})
        => /\ pc = "exited"
           /\ exit_code = 1
           /\ session = "closed"
           /\ websocket = "none"
           /\ ~running
           /\ outcome = "none"
           /\ nvalid = 0

C10_Witness ==
    /\ pc = "exited"
    /\ startup = <<"200", "no_bids">>
    /\ session = "closed"

C12_InterruptGraceful ==
    /\ interrupted => /\ pc = "exited"
                      /\ ~running
                      /\ websocket \in {"none", "closed"}
                      /\ session \in {"none", "closed"}
                      /\ exit_code = 0
    /\ pc = "exited" => msg = NoMsg

\* C12, the part that holds: as above, without the exit status.
C12_InterruptCleansUp ==
    /\ interrupted => /\ pc = "exited"
                      /\ ~running
                      /\ websocket \in {"none", "closed"}
                      /\ session \in {"none", "closed"}
    /\ pc = "exited" => msg = NoMsg

\* C13 (as claimed): for every value of the unsigned 64-bit range the string
\* format_decimal gives has exactly 7 fractional digits and parses back to
\* the value: round(float(string) * 10^7) is the value.
C13_DecimalRoundTrip ==
    /\ dec.stage \in {"string", "parsed"}
          => /\ Len(dec.string.frac) = FRAC_DIGITS
             /\ \A i \in 1..FRAC_DIGITS : dec.string.frac[i] \in 0..9
    /\ dec.stage = "parsed" => dec.back = dec.value

\* C13, the part that holds: 7 fractional digits for every value, and for a
\* value of fewer than MANT_BITS - 1 bits the string denotes the value and
\* parses back to it; the values of the mirror in Spec are of this kind, which
\* format_decimal writes in half units.
C13_RoundTripOfShortValues ==
    /\ dec.stage \in {"string", "parsed"}
          => /\ Len(dec.string.frac) = FRAC_DIGITS
             /\ \A i \in 1..FRAC_DIGITS : dec.string.frac[i] \in 0..9
             /\ Len(dec.value) < MANT_BITS - 1 => Denotes(dec.string) = dec.value
    /\ (dec.stage = "parsed" /\ Len(dec.value) < MANT_BITS - 1) => dec.back = dec.value
    /\ \A n \in 0..MaxSmall :
          2 * FracValue(format_decimal_u64(Bits(n)).frac) = format_decimal(n)

\* C14 (as claimed): once a payload is posted, the controller, given only
\* that its own steps are taken, ends the run with the connection and the
\* session closed.
C14_DoneAfterValidation ==
    (nvalid >= 1) ~> (pc = "exited" /\ websocket = "closed" /\ session = "closed")

\* C14, what holds instead: under SpecFairStream, where the stream goes on
\* to deliver a frame or to end, the run ends as above.
C14_DoneOnceStreamMoves ==
    (nvalid >= 1) ~> (pc = "exited" /\ websocket = "closed" /\ session = "closed" /\ ~running)

\* the stream loop loses its connection: the stream closed or raised
Disconnects == pc = "recv" /\ websocket' = "closed" /\ ~interrupted'

\* C15 (as claimed): when the stream ends, by a clean close or by an error,
\* while no payload is posted yet, the run is not ended and the controller
\* sleeps the backoff before it connects again; once a payload is posted no
\* end of the stream leads to a connection attempt.
C15_BackoffBeforeReconnect ==
    [][/\ (Disconnects /\ nvalid = 0)
             => /\ pc' = "backoff"
                /\ running'
                /\ exit_code' = -1
       /\ nvalid >= 1 => ~(pc = "connect" /\ pc' \in {"recv", "backoff"})]_vars

\* C15, the part that holds: as above, but the controller sleeps or goes
\* straight back to connect.
C15_ReconnectsUntilValidated ==
    [][/\ (Disconnects /\ nvalid = 0)
             => /\ pc' \in {"backoff", "connect"}
                /\ running'
                /\ exit_code' = -1
       /\ nvalid >= 1 => ~(pc = "connect" /\ pc' \in {"recv", "backoff"})]_vars

\* the positions of the controller inside _connect_websocket
StreamPositions == {"connect", "recv", "process", "validating", "backoff"}

\* C16: the snapshot is loaded once, before the first frame: _connect_websocket
\* is entered, and a frame handled, only with the one load done; the load is
\* a step of _get_snapshot, and no step of _connect_websocket, whatever the
\* disconnections and reconnections, loads again or goes back to it.
C16_SnapshotOnceBeforeDeltas ==
    [][/\ loads' <= 1
       /\ loaded' <=> loads' = 1
       /\ loads' # loads => pc = "get_snapshot" /\ pc' = "connect"
       /\ pc \in StreamPositions => /\ loads = 1
                                     /\ loads' = 1
                                     /\ pc' \in StreamPositions \cup {"exited"}
       /\ outcome' # "none" => loads' = 1]_vars

C16_Witness ==
    /\ loads = 1
    /\ pc = "recv"
    /\ outcome = "resumed"
    /\ premise # "empty"
    /\ nvalid = 0
    /\ order_book.last_update_id = target_ordinal - 1

\* C17: the steps between the loss of a connection and the first frame of
\* the next one (the close or the error, the backoff, the connection
\* attempts, the arrival of the frame) leave the bids, the asks and
\* last_update_id as the last handled frame left them; and a 26-byte frame
\* handled by the running loop is applied to that mirror whatever its
\* ordinal is, also when it does not follow last_update_id: last_update_id
\* becomes its ordinal and the ledger it addresses takes its level.
C17_ReconnectKeepsMirror ==
    [][/\ (pc \in {"recv", "backoff", "connect"} /\ ~interrupted')
             => order_book' = order_book
       /\ (Handles /\ msg.len = FRAME_LEN)
             => /\ order_book' = apply_delta(order_book, msg)
                /\ order_book'.last_update_id = msg.ordinal_id
                /\ Lookup(Addressed(order_book', msg), msg.price)
                      = (IF msg.quantity = 0 THEN -1 ELSE msg.quantity)
                /\ Other(order_book', msg) = Other(order_book, msg)]_vars

C17_Witness ==
    /\ pc = "recv"
    /\ websocket = "open"
    /\ running
    /\ outcome = "resumed"
    /\ premise = "holds"
    /\ Len(Bids) >= 1
    /\ Len(Asks) >= 1
    /\ order_book.last_update_id = 1

\* C18 (as claimed): the depth the /snapshot request asks for is the
\* configured depth of the mirror, the one that cuts the payload, whatever
\* depth is configured.
C18_SnapshotDepthIsConfigured ==
    asked # -1 => asked = order_book.depth

\* C19: a payload is posted only by the step that applies a 26-byte frame
\* whose own ordinal is >= target.  The load of a snapshot posts nothing,
\* whatever its lastUpdateId; a frame with an ordinal below the target posts
\* nothing and leaves last_update_id at its ordinal, below the target, also
\* when last_update_id was at or above the target before.  As long as no
\* payload is posted the controller is not validating, the loop keeps
\* running, and the run ends only by a failed startup or an interrupt.
C19_OnlyDeltaTriggers ==
    [][/\ Posts => (Handles /\ msg.len = FRAME_LEN /\ msg.ordinal_id >= target_ordinal)
       /\ pc = "get_snapshot" => (nvalid' = nvalid /\ pc' # "validating")
       /\ (Handles /\ msg.len = FRAME_LEN /\ msg.ordinal_id < target_ordinal)
             => /\ nvalid' = nvalid
                /\ pc' = "recv"
                /\ order_book'.last_update_id = msg.ordinal_id
                /\ order_book'.last_update_id < target_ordinal
       /\ nvalid' = 0
             => /\ pc' # "validating"
                /\ pc' \in StreamPositions => running'
                /\ pc' = "exited" => (exit_code' = 1 \/ interrupted')]_vars

C19_Witness ==
    /\ loads = 1
    /\ pc = "recv"
    /\ running
    /\ outcome = "none"
    /\ order_book.last_update_id > target_ordinal
    /\ nvalid = 0
    /\ payload = NoPayload

\* C20: a 26-byte frame handled by the running loop is applied whatever its
\* side field holds: with side 1 the bids take the update and the asks stay,
\* with any other side (0 or not) the asks take the update and the bids
\* stay; in both cases last_update_id becomes the frame's ordinal, and the
\* payload is posted when that ordinal is >= target.
C20_SideSelectsLedger ==
    [][(Handles /\ msg.len = FRAME_LEN) =>
         /\ IF msg.is_bid = 1
            THEN /\ order_book'.bids = update_bid(order_book.bids, msg.price, msg.quantity)
                 /\ order_book'.asks = order_book.asks
            ELSE /\ order_book'.asks = update_ask(order_book.asks, msg.price, msg.quantity)
                 /\ order_book'.bids = order_book.bids
         /\ order_book'.last_update_id = msg.ordinal_id
         /\ outcome' # "discarded"
         /\ Posts <=> msg.ordinal_id >= target_ordinal
         /\ Posts => (trigger' = msg /\ pc' = "validating")]_vars

C20_Witness ==
    /\ pc = "validating"
    /\ nvalid = 1
    /\ trigger.is_bid = 2
    /\ outcome = "set"
    /\ Bids = <<>>
    /\ Lookup(Asks, trigger.price) = trigger.quantity
    /\ order_book.last_update_id = trigger.ordinal_id


====
